---- MODULE Spec2Model ----
(***************************************************************************)
(* A model of chebpy's piecewise layer: Interval and Domain                *)
(* (chebpy/core/utilities.py) and Chebfun (chebpy/core/chebfun.py).        *)
(*                                                                         *)
(* Numbers.  Abscissae (interval endpoints, breakpoints, evaluation        *)
(* points, roots) are integers of a uniform grid.  A piece (a Bndfun,      *)
(* whose class is not part of the sources at hand) is an interval and the  *)
(* coefficients of a polynomial in the physical variable, lowest degree    *)
(* first.  The values held by breakdata and returned by __call__ are       *)
(* carried in halves (Val2(v) = 2v), so that the mean .5*(yl+yr) of two    *)
(* end values is an integer.                                               *)
(*                                                                         *)
(* Results.  An operation that can raise returns [raised |-> name] or      *)
(* [raised |-> "none", value |-> v].                                       *)
(***************************************************************************)
EXTENDS Integers, Sequences, FiniteSets, TLC

VARIABLES
    f,      \* the Chebfun object of the session, or NoObject
    dom,    \* the Domain object of the session, or NoObject
    ret,    \* the last operation: its name, its arguments and what it returned
    heap    \* the piece objects that exist, by address (where the session
            \* follows object identity; empty otherwise)

vars == <<f, dom, ret, heap>>

---------------------------------------------------------------------------
(* Bounds of the model *)

MaxPt == 2          \* abscissae of pieces and breakpoints are -1..MaxPt
MaxPieces == 3      \* pieces handed to the constructor
MaxX == 2           \* entries of an evaluation point vector
MaxLen == 3         \* cumsum is taken of pieces of fewer coefficients than this
MaxFixedLen == 2    \* the lengths asked of a fixed-length construction
MaxSeries == 2      \* coefficients of an operand of the series algebra

Pts == -1..MaxPt
EvalPts == -2..(MaxPt + 1)

---------------------------------------------------------------------------
(* Generic helpers *)

Abs(n) == IF n < 0 THEN -n ELSE n

Max2(a, b) == IF a >= b THEN a ELSE b

SeqsUpTo(S, n) == UNION {[1..k -> S] : k \in 0..n}

Ok(v) == [raised |-> "none", value |-> v]

Raise(e) == [raised |-> e]

NoObject == [kind |-> "none"]

\* numpy: a[lo:hi] on a 1-based sequence, both ends inclusive
Slice(s, lo, hi) == [i \in 1..Max2(hi - lo + 1, 0) |-> s[lo + i - 1]]

\* numpy: array(pairs).flatten()
RECURSIVE Flatten(_)
Flatten(pairs) ==
    IF pairs = <<>> THEN <<>>
    ELSE <<Head(pairs)[1], Head(pairs)[2]>> \o Flatten(Tail(pairs))

---------------------------------------------------------------------------
(* Interval (utilities.py) *)

\* Interval.__init__ refusing a > b only
IntervalInit_Degenerate(a, b) ==
    IF a > b THEN Raise("IntervalValues")
    ELSE Ok([values |-> <<a, b>>])

IntervalInit(a, b) ==
    IF a >= b THEN Raise("IntervalValues")
    ELSE Ok([values |-> <<a, b>>])

\* Interval.__contains__: other is a subinterval of self, bounds inclusive
IntervalContains(self, other) ==
    LET a == self.values[1]
        b == self.values[2]
        x == other.values[1]
        y == other.values[2]
    IN (a <= x) /\ (y <= b)

\* isinterior admitting the two ends
isinterior_Closed(self, x) ==
    LET a == self.values[1]
        b == self.values[2]
    IN (a <= x) /\ (x <= b)

\* Interval.isinterior: strict on both sides
isinterior(self, x) ==
    LET a == self.values[1]
        b == self.values[2]
    IN (a < x) /\ (x < b)

---------------------------------------------------------------------------
(* Bndfun: one polynomial on one Interval.  The class is imported by       *)
(* chebfun.py and is not among the sources; modelled from the              *)
(* specification (sections 3, 4.2, 4.3).                                   *)

Bndfun(interval, coeffs) == [interval |-> interval, coeffs |-> coeffs]

\* the value of the piece at x (Horner)
RECURSIVE Horner(_, _)
Horner(c, x) == IF c = <<>> THEN 0 ELSE Head(c) + x * Horner(Tail(c), x)

BndEval(fun, x) == Horner(fun.coeffs, x)

BndEndpoints(fun) == fun.interval.values

BndEndvalues(fun) ==
    <<BndEval(fun, fun.interval.values[1]), BndEval(fun, fun.interval.values[2])>>

\* fun + c for a number c
BndAddConst(fun, c) ==
    Bndfun(fun.interval,
           IF fun.coeffs = <<>> THEN <<>>
           ELSE [fun.coeffs EXCEPT ![1] = @ + c])

\* cumsum: the antiderivative that is 0 at the left endpoint.  Defined in
\* the integers when coefficient k is a multiple of k (see Integrable).
Integrable(fun) ==
    /\ Len(fun.coeffs) < MaxLen
    /\ \A k \in 1..Len(fun.coeffs) : fun.coeffs[k] % k = 0

BndCumsum(fun) ==
    LET c == fun.coeffs
        raw == [k \in 1..(Len(c) + 1) |-> IF k = 1 THEN 0 ELSE c[k - 1] \div (k - 1)]
        a == fun.interval.values[1]
    IN IF c = <<>> THEN fun
       ELSE Bndfun(fun.interval, [raw EXCEPT ![1] = 0 - Horner(raw, a)])

\* sum: the definite integral over the piece's interval
BndSum(fun) == BndEndvalues(BndCumsum(fun))[2]

\* diff: the derivative, one coefficient shorter
BndDiff(fun) ==
    LET c == fun.coeffs
    IN Bndfun(fun.interval,
              IF Len(c) <= 1 THEN <<>>
              ELSE [k \in 1..(Len(c) - 1) |-> k * c[k + 1]])

\* restrict: the same function on a subinterval; fails unless contained
BndRestrict(fun, subinterval) ==
    IF IntervalContains(fun.interval, subinterval)
    THEN Ok(Bndfun(subinterval, fun.coeffs))
    ELSE Raise("NotSubinterval")

BndCopy(fun) == fun

\* roots: the real roots in the closed interval, ascending.  Rootable says
\* that every real root of the polynomial is a point of the grid, which is
\* then where the roots are looked for.
Rootable(fun) ==
    LET c == fun.coeffs
    IN \/ Len(c) = 1 /\ c[1] # 0
       \/ Len(c) = 2 /\ c[2] = 0 /\ c[1] # 0
       \/ Len(c) = 2 /\ c[2] # 0 /\ c[1] % Abs(c[2]) = 0

RECURSIVE Ascending(_)
Ascending(S) ==
    IF S = {} THEN <<>>
    ELSE LET m == CHOOSE v \in S : \A w \in S : v <= w
         IN <<m>> \o Ascending(S \ {m})

BndRoots(fun) ==
    Ascending({x \in fun.interval.values[1]..fun.interval.values[2] : BndEval(fun, x) = 0})

---------------------------------------------------------------------------
(* Chebtech2: a series of Chebyshev coefficients, T_0 first; <<>> is the   *)
(* empty series.  The class is exercised by tests/test_chebtech.py and is  *)
(* not among the sources; modelled from the specification (section 4.2).   *)

isemptySeries(s) == Len(s) = 0

\* coefficient k (from 1) of a series, 0 beyond its length
CoefAt(s, k) == IF k <= Len(s) THEN s[k] ELSE 0

\* -s
SeriesNeg(s) == [k \in 1..Len(s) |-> 0 - s[k]]

\* +s
SeriesPos(s) == s

\* addition that takes the empty series for the zero function
SeriesAdd_EmptyIsZero(s, t) ==
    [k \in 1..Max2(Len(s), Len(t)) |-> CoefAt(s, k) + CoefAt(t, k)]

\* s + t: empty when either is, else coefficient by coefficient
SeriesAdd(s, t) ==
    IF isemptySeries(s) \/ isemptySeries(t) THEN <<>>
    ELSE [k \in 1..Max2(Len(s), Len(t)) |-> CoefAt(s, k) + CoefAt(t, k)]

\* s - t
SeriesSub(s, t) == SeriesAdd(s, SeriesNeg(t))

\* the sum of the entries of a finite set of index pairs
RECURSIVE SumOver(_, _, _)
SumOver(P, s, t) ==
    IF P = {} THEN 0
    ELSE LET q == CHOOSE q \in P : TRUE
         IN s[q[1]] * t[q[2]] + SumOver(P \ {q}, s, t)

\* s * t: T_i T_j = (T_(i+j) + T_|i-j|) / 2; exact for even coefficients
SeriesMul(s, t) ==
    IF isemptySeries(s) \/ isemptySeries(t) THEN <<>>
    ELSE [k \in 1..(Len(s) + Len(t) - 1) |->
            (SumOver({q \in (1..Len(s)) \X (1..Len(t)) : (q[1] - 1) + (q[2] - 1) = k - 1}, s, t)
             + SumOver({q \in (1..Len(s)) \X (1..Len(t)) : Abs(q[1] - q[2]) = k - 1}, s, t))
            \div 2]

---------------------------------------------------------------------------
(* Partition validation (utilities.py) *)

\* leftbreakpts.argsort(): some index that puts the keys in ascending
\* order; the order among equal keys is not fixed by the default sort.
\* ArgSortsFrom(keys, R): the ascending orders of the indices in R.
RECURSIVE ArgSortsFrom(_, _)
ArgSortsFrom(keys, R) ==
    IF R = {} THEN {<<>>}
    ELSE LET least == {i \in R : \A j \in R : keys[i] <= keys[j]}
         IN UNION {{<<i>> \o t : t \in ArgSortsFrom(keys, R \ {i})} : i \in least}

ArgSorts(keys) == ArgSortsFrom(keys, 1..Len(keys))

LeftBreakpts(intervals) == [i \in 1..Len(intervals) |-> intervals[i].values[1]]

\* the junction discrepancies d = x[1::2] - x[::2], x = srt.flatten()[1:-1]
Discrepancies(srt) ==
    LET flat == Flatten(srt)
        x == Slice(flat, 2, Len(flat) - 1)
    IN [i \in 1..(Len(x) \div 2) |-> x[2 * i] - x[2 * i - 1]]

\* _sortindex without its test for a positive discrepancy
sortindex_NoGapTest(intervals, idx) ==
    LET subintervals == [i \in 1..Len(intervals) |-> intervals[i].values]
        srt == [i \in 1..Len(idx) |-> subintervals[idx[i]]]
        d == Discrepancies(srt)
    IN IF \E i \in 1..Len(d) : d[i] < 0 THEN Raise("IntervalOverlap")
       ELSE Ok(idx)

\* _sortindex, with idx the outcome of the argsort
sortindex(intervals, idx) ==
    LET subintervals == [i \in 1..Len(intervals) |-> intervals[i].values]
        srt == [i \in 1..Len(idx) |-> subintervals[idx[i]]]
        d == Discrepancies(srt)
    IN IF \E i \in 1..Len(d) : d[i] < 0 THEN Raise("IntervalOverlap")
       ELSE IF \E i \in 1..Len(d) : d[i] > 0 THEN Raise("IntervalGap")
       ELSE Ok(idx)

\* check_funs that validates and then keeps the order it was given
check_funs_Unsorted(funs, idx) ==
    IF Len(funs) = 0 THEN Ok(<<>>)
    ELSE LET intervals == [i \in 1..Len(funs) |-> funs[i].interval]
             r == sortindex(intervals, idx)
         IN IF r.raised # "none" THEN r
            ELSE Ok(funs)

check_funs(funs, idx) ==
    IF Len(funs) = 0 THEN Ok(<<>>)
    ELSE LET intervals == [i \in 1..Len(funs) |-> funs[i].interval]
             r == sortindex(intervals, idx)
         IN IF r.raised # "none" THEN r
            ELSE Ok([i \in 1..Len(funs) |-> funs[r.value[i]]])

\* values in halves
Val2(v) == 2 * v

\* OrderedDict(zip(xout, yout)): a key seen again keeps its first place and
\* takes the later value
RECURSIVE OrderedDict(_, _)
OrderedDict(acc, pairs) ==
    IF pairs = <<>> THEN acc
    ELSE LET p == Head(pairs)
             hit == {i \in 1..Len(acc) : acc[i][1] = p[1]}
         IN OrderedDict(IF hit = {} THEN Append(acc, p)
                        ELSE [i \in 1..Len(acc) |-> IF i \in hit THEN p ELSE acc[i]],
                        Tail(pairs))

\* compute_breakdata taking the left limit at the interior breakpoints
compute_breakdata_LeftLimit(funs) ==
    IF Len(funs) = 0 THEN <<>>
    ELSE LET points == Flatten([i \in 1..Len(funs) |-> BndEndpoints(funs[i])])
             values == Flatten([i \in 1..Len(funs) |-> BndEndvalues(funs[i])])
             n == Len(points)
             xx == Slice(points, 2, n - 1)
             yy == Slice(values, 2, n - 1)
             x == [i \in 1..(Len(xx) \div 2) |-> (xx[2 * i - 1] + xx[2 * i]) \div 2]
             y == [i \in 1..(Len(yy) \div 2) |-> Val2(yy[2 * i - 1])]
             xout == <<points[1]>> \o x \o <<points[n]>>
             yout == <<Val2(values[1])>> \o y \o <<Val2(values[n])>>
         IN OrderedDict(<<>>, [i \in 1..Len(xout) |-> <<xout[i], yout[i]>>])

compute_breakdata(funs) ==
    IF Len(funs) = 0 THEN <<>>
    ELSE LET points == Flatten([i \in 1..Len(funs) |-> BndEndpoints(funs[i])])
             values == Flatten([i \in 1..Len(funs) |-> BndEndvalues(funs[i])])
             n == Len(points)
             xl == points[1]
             xr == points[n]
             yl == values[1]
             yr == values[n]
             xx == Slice(points, 2, n - 1)
             yy == Slice(values, 2, n - 1)
             x == [i \in 1..(Len(xx) \div 2) |-> (xx[2 * i - 1] + xx[2 * i]) \div 2]
             y == [i \in 1..(Len(yy) \div 2) |-> yy[2 * i - 1] + yy[2 * i]]
             xout == <<xl>> \o x \o <<xr>>
             yout == <<Val2(yl)>> \o y \o <<Val2(yr)>>
         IN OrderedDict(<<>>, [i \in 1..Len(xout) |-> <<xout[i], yout[i]>>])

---------------------------------------------------------------------------
(* Chebfun (chebfun.py) *)

\* Chebfun.__init__, with idx the outcome of the argsort in _sortindex
ChebfunInit(funs, idx) ==
    LET r == check_funs(funs, idx)
    IN IF r.raised # "none" THEN r
       ELSE Ok([kind |-> "chebfun",
                funs |-> r.value,
                breakdata |-> compute_breakdata(r.value),
                transposed |-> FALSE])

\* cls(funs) where the argsort has one outcome (distinct left endpoints)
ChebfunNew(funs) ==
    ChebfunInit(funs, CHOOSE idx \in ArgSorts(LeftBreakpts(
                          [i \in 1..Len(funs) |-> funs[i].interval])) : TRUE)

isempty(self) == Len(self.funs) = 0

\* Chebfun.breakpoints: the keys of breakdata, in its order
breakpoints(self) == [i \in 1..Len(self.breakdata) |-> self.breakdata[i][1]]

\* self.breakdata[breakpoint]
BreakdataAt(self, bp) ==
    self.breakdata[CHOOSE i \in 1..Len(self.breakdata) : self.breakdata[i][1] = bp][2]

\* Chebfun.endpoints: breakpoints[[0,-1]]
endpoints(self) ==
    IF isempty(self) THEN <<>>
    ELSE <<breakpoints(self)[1], breakpoints(self)[Len(breakpoints(self))]>>

\* Chebfun.hscale
hscale(self) ==
    IF isempty(self) THEN 0
    ELSE Max2(Abs(endpoints(self)[1]), Abs(endpoints(self)[2]))

(* __call__ *)

\* an entry of the output vector: NaN, or a value in halves
NaN == <<>>
Num(v2) == <<v2>>

\* for fun in self: idx = fun.interval.isinterior(x); out[idx] = fun(x[idx])
RECURSIVE CallInterior(_, _, _)
CallInterior(funs, x, out) ==
    IF funs = <<>> THEN out
    ELSE LET fun == Head(funs)
         IN CallInterior(Tail(funs), x,
                [i \in 1..Len(x) |->
                    IF isinterior(fun.interval, x[i])
                    THEN Num(Val2(BndEval(fun, x[i]))) ELSE out[i]])

\* for breakpoint in breakpoints: out[x==breakpoint] = self.breakdata[breakpoint]
RECURSIVE CallBreakpoints(_, _, _, _)
CallBreakpoints(self, bps, x, out) ==
    IF bps = <<>> THEN out
    ELSE LET breakpoint == Head(bps)
         IN CallBreakpoints(self, Tail(bps), x,
                [i \in 1..Len(x) |->
                    IF x[i] = breakpoint
                    THEN Num(BreakdataAt(self, breakpoint)) ELSE out[i]])

\* the extrapolation with the first and the last fun exchanged
CallOutside_Swapped(self, x, out) ==
    LET bps == breakpoints(self)
        first == self.funs[1]
        last == self.funs[Len(self.funs)]
        outl == [i \in 1..Len(x) |->
                    IF x[i] < bps[1] THEN Num(Val2(BndEval(last, x[i]))) ELSE out[i]]
    IN [i \in 1..Len(x) |->
            IF x[i] > bps[Len(bps)] THEN Num(Val2(BndEval(first, x[i]))) ELSE outl[i]]

\* lpts, rpts: the first and the last fun outside the domain
CallOutside(self, x, out) ==
    LET bps == breakpoints(self)
        first == self.funs[1]
        last == self.funs[Len(self.funs)]
        outl == [i \in 1..Len(x) |->
                    IF x[i] < bps[1] THEN Num(Val2(BndEval(first, x[i]))) ELSE out[i]]
    IN [i \in 1..Len(x) |->
            IF x[i] > bps[Len(bps)] THEN Num(Val2(BndEval(last, x[i]))) ELSE outl[i]]

\* __call__ without the pass over the breakpoints
ChebfunCall_NoBreakdata(self, x) ==
    IF isempty(self) THEN <<>>
    ELSE LET out0 == [i \in 1..Len(x) |-> NaN]
             out1 == CallInterior(self.funs, x, out0)
         IN CallOutside(self, x, out1)

ChebfunCall(self, x) ==
    IF isempty(self) THEN <<>>
    ELSE LET out0 == [i \in 1..Len(x) |-> NaN]
             out1 == CallInterior(self.funs, x, out0)
             out2 == CallBreakpoints(self, breakpoints(self), x, out1)
         IN CallOutside(self, x, out2)

\* the number of times each pass of __call__ assigns entry i of out
InteriorWrites(self, x, i) ==
    Cardinality({j \in 1..Len(self.funs) : isinterior(self.funs[j].interval, x[i])})

BreakpointWrites(self, x, i) ==
    Cardinality({k \in 1..Len(breakpoints(self)) : x[i] = breakpoints(self)[k]})

LeftWrites(self, x, i) == IF x[i] < breakpoints(self)[1] THEN 1 ELSE 0

RightWrites(self, x, i) ==
    IF x[i] > breakpoints(self)[Len(breakpoints(self))] THEN 1 ELSE 0

(* arithmetic *)

\* a call of a method that declares nparams parameters, self included
PyCall(nparams, args, result) ==
    IF Len(args) # nparams THEN Raise("TypeError") ELSE result

\* def __add__(self), __radd__(self), __sub__(self), __rsub__(self),
\* __rmul__(self), __neg__(self), __pos__(self); def __mul__(self, other)
Declared ==
    [add |-> 1, radd |-> 1, sub |-> 1, rsub |-> 1, mul |-> 2, rmul |-> 1,
     neg |-> 1, pos |-> 1]

\* the arguments the interpreter passes for the operator: self and, for a
\* binary operator, the other operand
Passed(name, self, other) ==
    IF name \in {"neg", "pos"} THEN <<self>> ELSE <<self, other>>

\* the operator applied with self as the Chebfun operand
ChebfunOperator(name, self, other) ==
    PyCall(Declared[name], Passed(name, self, other), Raise("NotImplementedError"))

(* cumsum *)

\* no fun yet (None), or the fun last appended
None == <<>>
Some(v) == <<v>>

\* for fun in self: integral = fun.cumsum(); if prevfun: integral += fb; ...
RECURSIVE CumsumLoop(_, _, _)
CumsumLoop(funs, prevfun, newfuns) ==
    IF funs = <<>> THEN newfuns
    ELSE LET integral0 == BndCumsum(Head(funs))
             integral == IF prevfun # None
                         THEN BndAddConst(integral0, BndEndvalues(prevfun[1])[2])
                         ELSE integral0
         IN CumsumLoop(Tail(funs), Some(integral), Append(newfuns, integral))

ChebfunCumsum(self) == ChebfunNew(CumsumLoop(self.funs, None, <<>>))

\* numpy.sum of a list of numbers
RECURSIVE SumSeq(_)
SumSeq(xs) == IF xs = <<>> THEN 0 ELSE Head(xs) + SumSeq(Tail(xs))

\* Chebfun.sum
ChebfunSum(self) == SumSeq([i \in 1..Len(self.funs) |-> BndSum(self.funs[i])])

\* diff that leaves out the pieces whose derivative is empty
ChebfunDiff_DropsEmpty(self) ==
    LET dfuns == [i \in 1..Len(self.funs) |-> BndDiff(self.funs[i])]
        RECURSIVE Keep(_)
        Keep(fs) == IF fs = <<>> THEN <<>>
                    ELSE IF Head(fs).coeffs = <<>> THEN Keep(Tail(fs))
                    ELSE <<Head(fs)>> \o Keep(Tail(fs))
    IN ChebfunNew(Keep(dfuns))

\* Chebfun.diff
ChebfunDiff(self) == ChebfunNew([i \in 1..Len(self.funs) |-> BndDiff(self.funs[i])])

\* Chebfun.copy
ChebfunCopy(self) == ChebfunNew([i \in 1..Len(self.funs) |-> BndCopy(self.funs[i])])

(* roots *)

\* 1e2 * DefaultPrefs.eps, the relative tolerance of roots, is 1/TolInv in
\* the units of the grid
TolInv == 2

\* abs(d) <= htol, htol = 1e2 * self.hscale * DefaultPrefs.eps, given hscale
WithinHtol(d, hs) == Abs(d) * TolInv <= hs

\* for fun in self: rts = fun.roots(); ...; allrts.append(rts); prvrts = rts
RECURSIVE RootsLoop(_, _, _, _)
RootsLoop(funs, prvrts, allrts, htol) ==
    IF funs = <<>> THEN allrts
    ELSE LET rts0 == BndRoots(Head(funs))
             rts == IF Len(prvrts) > 0 /\ Len(rts0) > 0
                       /\ WithinHtol(prvrts[Len(prvrts)] - rts0[1], htol)
                    THEN Tail(rts0) ELSE rts0
         IN RootsLoop(Tail(funs), rts, Append(allrts, rts), htol)

\* concatenate([x for x in allrts])
RECURSIVE Concatenate(_)
Concatenate(ss) == IF ss = <<>> THEN <<>> ELSE Head(ss) \o Concatenate(Tail(ss))

ChebfunRoots(self) ==
    IF isempty(self) THEN <<>>
    ELSE Concatenate(RootsLoop(self.funs, <<>>, <<>>, hscale(self)))

---------------------------------------------------------------------------
(* Domain (utilities.py) *)

\* Domain.__init__ admitting equal consecutive breakpoints
DomainInit_NonStrict(bps) ==
    IF Len(bps) < 2 THEN Raise("InvalidDomain")
    ELSE IF \E i \in 1..(Len(bps) - 1) : bps[i + 1] - bps[i] < 0
         THEN Raise("InvalidDomain")
    ELSE Ok([kind |-> "domain", breakpoints |-> bps])

DomainInit(bps) ==
    IF Len(bps) < 2 THEN Raise("InvalidDomain")
    ELSE IF \E i \in 1..(Len(bps) - 1) : bps[i + 1] - bps[i] <= 0
         THEN Raise("InvalidDomain")
    ELSE Ok([kind |-> "domain", breakpoints |-> bps])

\* a Python value handed to a call: a number, or a pair of numbers
PyNumber(v) == [pytype |-> "number", v |-> v]

\* Domain.__iter__: iterates over the breakpoints
DomainIter(self) == [i \in 1..Len(self.breakpoints) |-> PyNumber(self.breakpoints[i])]

\* Domain.from_chebfun
from_chebfun(chebfun) == DomainInit(breakpoints(chebfun))

\* Domain.support: breakpoints[[0,-1]]
support(self) == <<self.breakpoints[1], self.breakpoints[Len(self.breakpoints)]>>

\* numpy.unique: the distinct elements, ascending
RECURSIVE Unique(_)
Unique(S) ==
    IF S = {} THEN <<>>
    ELSE LET m == CHOOSE v \in S : \A w \in S : v <= w
         IN <<m>> \o Unique(S \ {m})

DomainMerge(self, other) ==
    LET all_breakpoints == self.breakpoints \o other.breakpoints
        new_breakpoints == Unique({all_breakpoints[i] : i \in 1..Len(all_breakpoints)})
    IN DomainInit(new_breakpoints)

\* union comparing the first breakpoints only
DomainUnion_FirstOnly(self, other) ==
    IF support(self)[1] # support(other)[1] THEN Raise("SupportMismatch")
    ELSE DomainMerge(self, other)

DomainUnion(self, other) ==
    IF \E i \in 1..2 : support(self)[i] # support(other)[i] THEN Raise("SupportMismatch")
    ELSE DomainMerge(self, other)

---------------------------------------------------------------------------
(* Object identity.  A piece object lives at an address of the heap; a      *)
(* Chebfun object, or a caller's array, holds references to piece objects. *)

\* the pieces an array of references stands for
Deref(refs, hp) == [i \in 1..Len(refs) |-> hp[refs[i]]]

\* a Chebfun object with its pieces by value
Value(self, hp) == [self EXCEPT !.funs = Deref(self.funs, hp)]

\* new piece objects: the heap with them, and the references to them
Alloc(hp, newfuns) ==
    [heap |-> hp \o newfuns, refs |-> [i \in 1..Len(newfuns) |-> Len(hp) + i]]

\* Chebfun.__init__ on an array of references: check_funs keeps
\* array(funs)[idx], a new array of the same piece objects
HeapChebfunInit(refs, idx, hp) ==
    IF Len(refs) = 0
    THEN Ok([kind |-> "chebfun", funs |-> <<>>, breakdata |-> <<>>, transposed |-> FALSE])
    ELSE LET intervals == [i \in 1..Len(refs) |-> hp[refs[i]].interval]
             r == sortindex(intervals, idx)
         IN IF r.raised # "none" THEN r
            ELSE LET sortedfuns == [i \in 1..Len(refs) |-> refs[r.value[i]]]
                 IN Ok([kind |-> "chebfun",
                        funs |-> sortedfuns,
                        breakdata |-> compute_breakdata(Deref(sortedfuns, hp)),
                        transposed |-> FALSE])

\* self.__class__(newfuns) for piece objects made by the method
HeapChebfunNew(newfuns, hp) ==
    LET a == Alloc(hp, newfuns)
        idx == CHOOSE i \in ArgSorts(LeftBreakpts(
                   [k \in 1..Len(newfuns) |-> newfuns[k].interval])) : TRUE
    IN [heap |-> a.heap, out |-> HeapChebfunInit(a.refs, idx, a.heap)]

\* Chebfun.copy: [fun.copy() for fun in self]
HeapCopy(self, hp) ==
    HeapChebfunNew([i \in 1..Len(self.funs) |-> BndCopy(hp[self.funs[i]])], hp)

\* Chebfun.diff: [fun.diff() for fun in self]
HeapDiff(self, hp) ==
    HeapChebfunNew([i \in 1..Len(self.funs) |-> BndDiff(hp[self.funs[i]])], hp)

\* cumsum that writes each integral over the piece it was taken of
HeapCumsum_InPlace(self, hp) ==
    LET newfuns == CumsumLoop(Deref(self.funs, hp), None, <<>>)
        written == [a \in 1..Len(hp) |->
                       IF \E i \in 1..Len(self.funs) : self.funs[i] = a
                       THEN newfuns[CHOOSE i \in 1..Len(self.funs) : self.funs[i] = a]
                       ELSE hp[a]]
    IN [heap |-> written,
        out |-> HeapChebfunInit(self.funs, [i \in 1..Len(self.funs) |-> i], written)]

\* Chebfun.cumsum: every integral is a new piece object
HeapCumsum(self, hp) ==
    HeapChebfunNew(CumsumLoop(Deref(self.funs, hp), None, <<>>), hp)

---------------------------------------------------------------------------
(* Chebfun.__break and the constructors from a callable (chebfun.py) *)

\* Interval(*item): the arguments are the unpacking of item, and a number
\* does not unpack
IntervalStar(item) ==
    IF item.pytype = "number" THEN Raise("TypeError")
    ELSE IntervalInit(item.v[1], item.v[2])

\* for fun in self: while intvl in fun.interval: ...; items is what the
\* generator has left
RECURSIVE BreakLoop(_, _, _, _)
BreakLoop(funs, intvl, items, newfuns) ==
    IF funs = <<>> THEN Ok(newfuns)
    ELSE IF IntervalContains(Head(funs).interval, intvl)
         THEN LET r == BndRestrict(Head(funs), intvl)
              IN IF r.raised # "none" THEN r
                 ELSE IF items = <<>>
                      THEN BreakLoop(Tail(funs), intvl, items, Append(newfuns, r.value))
                      ELSE LET nx == IntervalStar(Head(items))
                           IN IF nx.raised # "none" THEN nx
                              ELSE BreakLoop(funs, nx.value, Tail(items),
                                             Append(newfuns, r.value))
         ELSE BreakLoop(Tail(funs), intvl, items, newfuns)

ChebfunBreak(self, targetdomain) ==
    LET intvl_gen == DomainIter(targetdomain)
        intvl == IntervalStar(Head(intvl_gen))
    IN IF intvl.raised # "none" THEN intvl
       ELSE LET r == BreakLoop(self.funs, intvl.value, Tail(intvl_gen), <<>>)
            IN IF r.raised # "none" THEN r ELSE ChebfunNew(r.value)

\* Bndfun.initfun_fixedlen(f, interval, length): the callable g, a
\* polynomial, kept to `length` coefficients (Bndfun is not among the
\* sources)
BndInitfunFixedlen(g, interval, length) ==
    Bndfun(interval, [k \in 1..length |-> IF k <= Len(g) THEN g[k] ELSE 0])

\* the length argument: a number (held as its one entry), or a sequence of
\* numbers
Scalar(k) == [scalar |-> TRUE, v |-> <<k>>]
Lengths(ks) == [scalar |-> FALSE, v |-> ks]

\* array(n).size
ArgSize(n) == IF n.scalar THEN 1 ELSE Len(n.v)

\* nn * ones(k) for nn of size 1
Broadcast(n, k) == [i \in 1..k |-> n.v[1]]

\* for interval, length in zip(intervals, nn): ...
RECURSIVE FixedlenLoop(_, _, _, _)
FixedlenLoop(g, intervals, nn, funs) ==
    IF intervals = <<>> \/ nn = <<>> THEN Ok(funs)
    ELSE LET interval == IntervalInit(Head(intervals)[1], Head(intervals)[2])
         IN IF interval.raised # "none" THEN interval
            ELSE FixedlenLoop(g, Tail(intervals), Tail(nn),
                     Append(funs, BndInitfunFixedlen(g, interval.value, Head(nn))))

\* zip(domain[:-1], domain[1:])
Pairs(domain) == [i \in 1..(Len(domain) - 1) |-> <<domain[i], domain[i + 1]>>]

initfun_fixedlen(g, domain, n) ==
    IF Len(domain) < 2 THEN Raise("BadDomainArgument")
    ELSE IF ArgSize(n) > 1 /\ ArgSize(n) # Len(domain) - 1
         THEN Raise("BadFunLengthArgument")
    ELSE LET nn == IF ArgSize(n) = 1 THEN Broadcast(n, Len(domain) - 1) ELSE n.v
             r == FixedlenLoop(g, Pairs(domain), nn, <<>>)
         IN IF r.raised # "none" THEN r ELSE ChebfunNew(r.value)

\* Bndfun.initfun_adaptive(f, interval): the callable g, a polynomial, on
\* the interval (Bndfun is not among the sources)
BndInitfunAdaptive(g, interval) == Bndfun(interval, g)

\* for interval in zip(domain[:-1], domain[1:]): ...
RECURSIVE AdaptiveLoop(_, _, _)
AdaptiveLoop(g, intervals, funs) ==
    IF intervals = <<>> THEN Ok(funs)
    ELSE LET interval == IntervalInit(Head(intervals)[1], Head(intervals)[2])
         IN IF interval.raised # "none" THEN interval
            ELSE AdaptiveLoop(g, Tail(intervals),
                     Append(funs, BndInitfunAdaptive(g, interval.value)))

initfun_adaptive(g, domain) ==
    IF Len(domain) < 2 THEN Raise("BadDomainArgument")
    ELSE LET r == AdaptiveLoop(g, Pairs(domain), <<>>)
         IN IF r.raised # "none" THEN r ELSE ChebfunNew(r.value)

---------------------------------------------------------------------------
(* The inputs of the session *)

\* the Interval objects that exist: IntervalInit admits a < b only
Intervals ==
    {IntervalInit(a, b).value : <<a, b>> \in {q \in Pts \X Pts : q[1] < q[2]}}

\* the polynomials at hand: 2x, 2x - 2 and the constant 2
FunSet == {<<0, 2>>, <<-2, 2>>, <<2>>}

\* the functions a caller's pieces are taken from: one polynomial left of
\* 0 and one from 0 on (the same one, or another)
Sources == {[p \in Pts |-> IF p < 0 THEN g1 ELSE g2] : g1, g2 \in FunSet}

\* the piece of a source on an interval: its branch at the left endpoint
PieceOf(src, interval) == Bndfun(interval, src[interval.values[1]])

XVectors == SeqsUpTo(EvalPts, MaxX)

\* the Domain objects that exist
Domains ==
    {DomainInit(Unique(S)).value : S \in {T \in SUBSET Pts : Cardinality(T) >= 2}}

LengthArgs ==
    {Scalar(k) : k \in 1..MaxFixedLen}
        \cup {Lengths(ks) : ks \in SeqsUpTo(1..MaxFixedLen, MaxPieces)}

---------------------------------------------------------------------------
(* The operations *)

Init ==
    /\ f = NoObject
    /\ dom = NoObject
    /\ ret = [op |-> "none"]
    /\ heap = <<>>

\* Chebfun(funs)
Construct ==
    /\ ret.op = "none"
    /\ \E src \in Sources, ivs \in SeqsUpTo(Intervals, MaxPieces) :
       \E idx \in ArgSorts(LeftBreakpts(ivs)) :
          LET funs == [i \in 1..Len(ivs) |-> PieceOf(src, ivs[i])]
              r == ChebfunInit(funs, idx)
          IN /\ f' = IF r.raised = "none" THEN r.value ELSE f
             /\ ret' = [op |-> "Chebfun", funs |-> funs, raised |-> r.raised]
    /\ UNCHANGED <<dom, heap>>

\* the caller lets go of what the last call returned
Discard ==
    /\ f # NoObject
    /\ ret.op \notin {"none", "idle"}
    /\ ret' = [op |-> "idle"]
    /\ UNCHANGED <<f, dom, heap>>

\* self(x)
Call ==
    /\ f # NoObject
    /\ ret.op = "idle"
    /\ \E x \in XVectors :
          ret' = [op |-> "call", x |-> x, out |-> ChebfunCall(f, x)]
    /\ UNCHANGED <<f, dom, heap>>

\* self.cumsum(), the session going on with the result
Cumsum ==
    /\ f # NoObject
    /\ ret.op = "idle"
    /\ \A i \in 1..Len(f.funs) : Integrable(f.funs[i])
    /\ LET r == ChebfunCumsum(f)
       IN /\ r.raised = "none"
          /\ f' = r.value
          /\ ret' = [op |-> "cumsum", self |-> f, out |-> r.value]
    /\ UNCHANGED <<dom, heap>>

\* self.diff(), the session going on with the result
Diff ==
    /\ f # NoObject
    /\ ret.op = "idle"
    /\ LET r == ChebfunDiff(f)
       IN /\ r.raised = "none"
          /\ f' = r.value
          /\ ret' = [op |-> "diff", self |-> f, out |-> r.value]
    /\ UNCHANGED <<dom, heap>>

\* self.copy(), the session going on with the result
Copy ==
    /\ f # NoObject
    /\ ret.op = "idle"
    /\ LET r == ChebfunCopy(f)
       IN /\ r.raised = "none"
          /\ f' = r.value
          /\ ret' = [op |-> "copy", self |-> f, out |-> r.value]
    /\ UNCHANGED <<dom, heap>>

\* self.sum()
Sum ==
    /\ f # NoObject
    /\ ret.op = "idle"
    /\ \A i \in 1..Len(f.funs) : Integrable(f.funs[i])
    /\ ret' = [op |-> "sum", out |-> ChebfunSum(f)]
    /\ UNCHANGED <<f, dom, heap>>

\* f + other, other + f, f - other, other - f, f * other, other * f, -f, +f
Arith ==
    /\ f # NoObject
    /\ ret.op = "idle"
    /\ \E name \in DOMAIN Declared : \E other \in {"Chebfun", "number"} :
          /\ name \in {"radd", "rsub", "rmul"} => other = "number"
          /\ LET r == ChebfunOperator(name, f, IF other = "number" THEN PyNumber(1) ELSE f)
             IN ret' = [op |-> "operator", name |-> name, other |-> other,
                        raised |-> r.raised]
    /\ UNCHANGED <<f, dom, heap>>

\* self.roots()
Roots ==
    /\ f # NoObject
    /\ ret.op = "idle"
    /\ \A i \in 1..Len(f.funs) : Rootable(f.funs[i])
    /\ ret' = [op |-> "roots", out |-> ChebfunRoots(f)]
    /\ UNCHANGED <<f, dom, heap>>

\* self.__break(targetdomain) for a target that holds self's breakpoints
Break ==
    /\ f # NoObject
    /\ ret.op = "idle"
    /\ ~isempty(f)
    /\ \E target \in Domains :
          /\ support(target) = endpoints(f)
          /\ \A i \in 1..Len(breakpoints(f)) :
                \E k \in 1..Len(target.breakpoints) :
                    target.breakpoints[k] = breakpoints(f)[i]
          /\ LET r == ChebfunBreak(f, target)
             IN ret' = [op |-> "break", target |-> target, raised |-> r.raised,
                        out |-> IF r.raised = "none" THEN r.value ELSE NoObject]
    /\ UNCHANGED <<f, dom, heap>>

\* Chebfun.initfun_fixedlen(g, domain, n)
InitfunFixedlen ==
    /\ ret.op = "none"
    /\ \E g \in FunSet, domain \in SeqsUpTo(Pts, MaxPieces + 1), n \in LengthArgs :
          LET r == initfun_fixedlen(g, domain, n)
          IN /\ f' = IF r.raised = "none" THEN r.value ELSE f
             /\ ret' = [op |-> "initfun_fixedlen", domain |-> domain, n |-> n,
                        raised |-> r.raised]
    /\ UNCHANGED <<dom, heap>>

Next ==
    \/ Construct
    \/ Discard
    \/ Call
    \/ Cumsum
    \/ Diff
    \/ Copy
    \/ Sum
    \/ Arith
    \/ Roots
    \/ Break

Spec == Init /\ [][Next]_vars

NextFixedlen ==
    \/ InitfunFixedlen
    \/ Discard
    \/ Call

SpecFixedlen == Init /\ [][NextFixedlen]_vars

\* Domain(breakpoints)
NewDomain ==
    /\ ret.op = "none"
    /\ \E bps \in SeqsUpTo(Pts, MaxPieces + 1) :
          LET r == DomainInit(bps)
          IN /\ dom' = IF r.raised = "none" THEN r.value ELSE dom
             /\ ret' = [op |-> "Domain", breakpoints |-> bps, raised |-> r.raised]
    /\ UNCHANGED <<f, heap>>

\* self.union(other), the session going on with the result
Union ==
    /\ dom # NoObject
    /\ \E other \in Domains :
          LET r == DomainUnion(dom, other)
          IN /\ dom' = IF r.raised = "none" THEN r.value ELSE dom
             /\ ret' = [op |-> "union", self |-> dom, other |-> other,
                        raised |-> r.raised,
                        out |-> IF r.raised = "none" THEN r.value ELSE NoObject]
    /\ UNCHANGED <<f, heap>>

\* self.merge(other), the session going on with the result
Merge ==
    /\ dom # NoObject
    /\ \E other \in Domains :
          LET r == DomainMerge(dom, other)
          IN /\ dom' = IF r.raised = "none" THEN r.value ELSE dom
             /\ ret' = [op |-> "merge", self |-> dom, other |-> other,
                        raised |-> r.raised,
                        out |-> IF r.raised = "none" THEN r.value ELSE NoObject]
    /\ UNCHANGED <<f, heap>>

NextDomain ==
    \/ NewDomain
    \/ Union
    \/ Merge

SpecDomain == Init /\ [][NextDomain]_vars

\* Interval(a, b)
NewInterval ==
    /\ \E a, b \in Pts :
          LET r == IntervalInit(a, b)
          IN ret' = [op |-> "Interval", a |-> a, b |-> b, raised |-> r.raised,
                     out |-> IF r.raised = "none" THEN r.value ELSE NoObject]
    /\ UNCHANGED <<f, dom, heap>>

\* Chebfun.initfun_adaptive(g, domain), the first call of the session
InitfunAdaptive ==
    /\ ret.op = "none"
    /\ \E g \in FunSet, domain \in SeqsUpTo(Pts, MaxPieces + 1) :
          LET r == initfun_adaptive(g, domain)
          IN /\ f' = IF r.raised = "none" THEN r.value ELSE f
             /\ ret' = [op |-> "initfun_adaptive", domain |-> domain,
                        raised |-> r.raised]
    /\ UNCHANGED <<dom, heap>>

NextInterval ==
    \/ NewInterval
    \/ InitfunAdaptive

SpecInterval == Init /\ [][NextInterval]_vars

\* funs = [...]; f = Chebfun(funs): the caller makes the pieces and keeps
\* its array of them
ConstructObj ==
    /\ ret.op = "none"
    /\ \E src \in Sources, ivs \in SeqsUpTo(Intervals, MaxPieces) :
       \E idx \in ArgSorts(LeftBreakpts(ivs)) :
          LET a == Alloc(heap, [i \in 1..Len(ivs) |-> PieceOf(src, ivs[i])])
              r == HeapChebfunInit(a.refs, idx, a.heap)
          IN /\ heap' = a.heap
             /\ f' = IF r.raised = "none" THEN r.value ELSE f
             /\ ret' = [op |-> "Chebfun", funs |-> a.refs, raised |-> r.raised]
    /\ UNCHANGED dom

\* a method of f that returns a new Chebfun: g = f.copy(), f.diff(), f.cumsum()
MethodObj ==
    /\ f # NoObject
    /\ ret.op = "Chebfun"
    /\ \E op \in {"copy", "diff", "cumsum"} :
          /\ op = "cumsum" => \A i \in 1..Len(f.funs) : Integrable(heap[f.funs[i]])
          /\ LET r == CASE op = "copy" -> HeapCopy(f, heap)
                        [] op = "diff" -> HeapDiff(f, heap)
                        [] op = "cumsum" -> HeapCumsum(f, heap)
             IN /\ r.out.raised = "none"
                /\ heap' = r.heap
                /\ ret' = [op |-> op, self |-> f, before |-> Value(f, heap),
                           out |-> r.out.value]
    /\ UNCHANGED <<f, dom>>

\* a method of f that returns numbers: f(x), f.roots(), f.sum()
QueryObj ==
    /\ f # NoObject
    /\ ret.op = "Chebfun"
    /\ \/ \E x \in XVectors :
             ret' = [op |-> "call", self |-> f, before |-> Value(f, heap),
                     out |-> ChebfunCall(Value(f, heap), x)]
       \/ /\ \A i \in 1..Len(f.funs) : Rootable(heap[f.funs[i]])
          /\ ret' = [op |-> "roots", self |-> f, before |-> Value(f, heap),
                     out |-> ChebfunRoots(Value(f, heap))]
       \/ /\ \A i \in 1..Len(f.funs) : Integrable(heap[f.funs[i]])
          /\ ret' = [op |-> "sum", self |-> f, before |-> Value(f, heap),
                     out |-> ChebfunSum(Value(f, heap))]
    /\ UNCHANGED <<f, dom, heap>>

\* the references to piece objects the caller holds after the last call
Held == IF ret.op = "Chebfun" THEN ret.funs
        ELSE IF ret.op \in {"copy", "diff", "cumsum"} THEN ret.out.funs
        ELSE <<>>

\* the caller overwrites the coefficients of a piece it holds, in place
Mutate ==
    /\ f # NoObject
    /\ \E k \in 1..Len(Held) : \E c \in FunSet :
          /\ c # heap[Held[k]].coeffs
          /\ heap' = [heap EXCEPT ![Held[k]].coeffs = c]
          /\ ret' = [op |-> "mutate", through |-> ret.op, ref |-> Held[k],
                     before |-> Value(f, heap)]
    /\ UNCHANGED <<f, dom>>

NextObj ==
    \/ ConstructObj
    \/ MethodObj
    \/ QueryObj
    \/ Mutate

SpecObj == Init /\ [][NextObj]_vars

\* the series at hand: even coefficients, so that products are exact
SeriesSet == SeqsUpTo({-2, 0, 2}, MaxSeries)

\* left + right, left - right, left * right
SeriesBinary ==
    /\ ret.op = "none"
    /\ \E left, right \in SeriesSet : \E op \in {"add", "sub", "mul"} :
          ret' = [op |-> op, left |-> left, right |-> right,
                  out |-> CASE op = "add" -> SeriesAdd(left, right)
                            [] op = "sub" -> SeriesSub(left, right)
                            [] op = "mul" -> SeriesMul(left, right)]
    /\ UNCHANGED <<f, dom, heap>>

\* +operand, -operand
SeriesUnary ==
    /\ ret.op = "none"
    /\ \E operand \in SeriesSet : \E op \in {"pos", "neg"} :
          ret' = [op |-> op, operand |-> operand,
                  out |-> IF op = "pos" THEN SeriesPos(operand) ELSE SeriesNeg(operand)]
    /\ UNCHANGED <<f, dom, heap>>

NextSeries ==
    \/ SeriesBinary
    \/ SeriesUnary

SpecSeries == Init /\ [][NextSeries]_vars

---------------------------------------------------------------------------
(* Vocabulary of the properties *)

Left(fun) == fun.interval.values[1]
Right(fun) == fun.interval.values[2]

\* the orders that take the pieces by ascending left endpoint
LeftOrders(funs) == ArgSorts([i \in 1..Len(funs) |-> Left(funs[i])])

\* some junction, taking the pieces by left endpoint, leaves a gap
HasGap(funs) ==
    \E p \in LeftOrders(funs) : \E i \in 1..(Len(funs) - 1) :
        Left(funs[p[i + 1]]) > Right(funs[p[i]])

\* some junction, taking the pieces by left endpoint, overlaps
HasOverlap(funs) ==
    \E p \in LeftOrders(funs) : \E i \in 1..(Len(funs) - 1) :
        Left(funs[p[i + 1]]) < Right(funs[p[i]])

\* the pieces tile a range exactly
Tiles(funs) == Len(funs) > 0 /\ ~HasGap(funs) /\ ~HasOverlap(funs)

\* the elements of a finite set of integers in ascending order
RECURSIVE SortedSeq(_)
SortedSeq(S) ==
    IF S = {} THEN <<>>
    ELSE LET m == CHOOSE v \in S : \A w \in S : v <= w
         IN <<m>> \o SortedSeq(S \ {m})

EndpointSet(funs) == {Left(funs[i]) : i \in 1..Len(funs)} \cup {Right(funs[i]) : i \in 1..Len(funs)}

Constructed == ret.op = "Chebfun" /\ Len(ret.funs) > 0

---------------------------------------------------------------------------
(* C1 *)

\* C1 (as stated): construction from a non-empty set of pieces raises Gap
\* when some junction has a gap and raises Overlap when some junction
\* overlaps, and produces no function in either case.
C1_AsStated ==
    Constructed =>
        /\ HasGap(ret.funs) => (ret.raised = "IntervalGap" /\ f = NoObject)
        /\ HasOverlap(ret.funs) => (ret.raised = "IntervalOverlap" /\ f = NoObject)

\* C1 (amended): construction from a non-empty set of pieces raises Overlap
\* when some junction overlaps, raises Gap when some junction has a gap and
\* no junction overlaps, and produces no function in either case.
C1_GapOverlap ==
    Constructed =>
        /\ HasOverlap(ret.funs) => (ret.raised = "IntervalOverlap" /\ f = NoObject)
        /\ (HasGap(ret.funs) /\ ~HasOverlap(ret.funs))
              => (ret.raised = "IntervalGap" /\ f = NoObject)

\* three pieces with a gap at one junction and an overlap at another
C1_Witness ==
    /\ Constructed
    /\ Len(ret.funs) = MaxPieces
    /\ HasGap(ret.funs) /\ HasOverlap(ret.funs)
    /\ ret.raised = "IntervalOverlap"

(* C2 *)

\* C2: pieces that tile a range exactly construct in whatever order they
\* are supplied; the stored pieces are the supplied ones sorted by left
\* endpoint and the breakpoints are the k+1 distinct endpoints, ascending.
C2_TilingConstructs ==
    (Constructed /\ Tiles(ret.funs)) =>
        /\ ret.raised = "none"
        /\ f # NoObject
        /\ Len(f.funs) = Len(ret.funs)
        /\ {f.funs[i] : i \in 1..Len(f.funs)} = {ret.funs[i] : i \in 1..Len(ret.funs)}
        /\ \A i \in 1..(Len(f.funs) - 1) : Left(f.funs[i]) < Left(f.funs[i + 1])
        /\ breakpoints(f) = SortedSeq(EndpointSet(ret.funs))
        /\ Len(breakpoints(f)) = Len(ret.funs) + 1
        /\ \A i \in 1..(Len(breakpoints(f)) - 1) : breakpoints(f)[i] < breakpoints(f)[i + 1]

\* three tiling pieces supplied in descending order
C2_Witness ==
    /\ Constructed /\ Tiles(ret.funs)
    /\ Len(ret.funs) = MaxPieces
    /\ \A i \in 1..(Len(ret.funs) - 1) : Left(ret.funs[i]) > Left(ret.funs[i + 1])
    /\ f # NoObject

(* C3 *)

Called == ret.op = "call" /\ f # NoObject /\ ~isempty(f)

\* C3: evaluation returns, at a point strictly inside a piece, that piece's
\* value there, and at a point equal to a breakpoint the breakdata value of
\* that breakpoint.
C3_InteriorAndBreakpoints ==
    Called =>
        /\ Len(ret.out) = Len(ret.x)
        /\ \A i \in 1..Len(ret.x) :
            /\ \A j \in 1..Len(f.funs) :
                  (Left(f.funs[j]) < ret.x[i] /\ ret.x[i] < Right(f.funs[j]))
                      => ret.out[i] = Num(Val2(BndEval(f.funs[j], ret.x[i])))
            /\ \A k \in 1..Len(f.breakdata) :
                  ret.x[i] = f.breakdata[k][1] => ret.out[i] = Num(f.breakdata[k][2])

\* a vector with a point inside a piece and a point at an interior
\* breakpoint where the two adjacent pieces differ, the output there being
\* the value of neither
C3_Witness ==
    /\ Called
    /\ \E i \in 1..Len(ret.x) : \E j \in 1..Len(f.funs) :
          Left(f.funs[j]) < ret.x[i] /\ ret.x[i] < Right(f.funs[j])
    /\ \E i \in 1..Len(ret.x) : \E j \in 1..(Len(f.funs) - 1) :
          /\ ret.x[i] = Right(f.funs[j])
          /\ BndEval(f.funs[j], ret.x[i]) # BndEval(f.funs[j + 1], ret.x[i])
          /\ ret.out[i] # Num(Val2(BndEval(f.funs[j], ret.x[i])))
          /\ ret.out[i] # Num(Val2(BndEval(f.funs[j + 1], ret.x[i])))

(* C4 *)

\* C4: evaluation left of the first breakpoint returns the first piece's
\* value there, right of the last breakpoint the last piece's value there;
\* it returns a number for every point.
C4_Extrapolates ==
    Called =>
        \A i \in 1..Len(ret.x) :
            /\ ret.x[i] < breakpoints(f)[1]
                  => ret.out[i] = Num(Val2(BndEval(f.funs[1], ret.x[i])))
            /\ ret.x[i] > breakpoints(f)[Len(breakpoints(f))]
                  => ret.out[i] = Num(Val2(BndEval(f.funs[Len(f.funs)], ret.x[i])))
            /\ ret.out[i] # NaN

\* a vector with a point on either side of a function of several pieces
\* whose first and last pieces differ there
C4_Witness ==
    /\ Called
    /\ Len(f.funs) > 1
    /\ \E i \in 1..Len(ret.x) :
          /\ ret.x[i] < breakpoints(f)[1]
          /\ BndEval(f.funs[1], ret.x[i]) # BndEval(f.funs[Len(f.funs)], ret.x[i])
    /\ \E i \in 1..Len(ret.x) : ret.x[i] > breakpoints(f)[Len(breakpoints(f))]

(* C5 *)

RightValue(fun) == BndEndvalues(fun)[2]
LeftValue(fun) == BndEndvalues(fun)[1]

KeptAsStated(funs, j, hs) ==
    LET prev == IF j > 1 THEN BndRoots(funs[j - 1]) ELSE <<>>
        mine == BndRoots(funs[j])
    IN IF Len(prev) > 0 /\ Len(mine) > 0
            /\ Abs(prev[Len(prev)] - mine[1]) * TolInv <= hs
       THEN Tail(mine) ELSE mine

C7_AsStated ==
    ret.op = "break" =>
        /\ ret.raised = "none"
        /\ breakpoints(ret.out) = ret.target.breakpoints
        /\ Len(ret.out.funs) = Len(ret.target.breakpoints) - 1
        /\ \A k \in 1..Len(ret.out.funs) :
              \E j \in 1..Len(f.funs) :
                  /\ Left(f.funs[j]) <= Left(ret.out.funs[k])
                  /\ Right(ret.out.funs[k]) <= Right(f.funs[j])
                  /\ ret.out.funs[k].coeffs = f.funs[j].coeffs

(* C8 *)

BreakpointSet(d) == {d.breakpoints[i] : i \in 1..Len(d.breakpoints)}

First(s) == s[1]
Last(s) == s[Len(s)]

\* C8: union raises SupportMismatch when the first or the last breakpoints
\* differ and otherwise returns the sorted, duplicate-free union of the
\* breakpoints; merge returns that union whatever the supports.
C8_UnionMerge ==
    /\ ret.op = "union" =>
          IF First(ret.self.breakpoints) # First(ret.other.breakpoints)
                \/ Last(ret.self.breakpoints) # Last(ret.other.breakpoints)
          THEN ret.raised = "SupportMismatch" /\ dom = ret.self
          ELSE /\ ret.raised = "none"
               /\ ret.out.kind = "domain"
               /\ ret.out.breakpoints =
                     SortedSeq(BreakpointSet(ret.self) \cup BreakpointSet(ret.other))
    /\ ret.op = "merge" =>
          /\ ret.raised = "none"
          /\ ret.out.kind = "domain"
          /\ ret.out.breakpoints =
                SortedSeq(BreakpointSet(ret.self) \cup BreakpointSet(ret.other))

\* a union refused because the last breakpoints alone differ
C8_Witness ==
    /\ ret.op = "union"
    /\ First(ret.self.breakpoints) = First(ret.other.breakpoints)
    /\ Last(ret.self.breakpoints) # Last(ret.other.breakpoints)
    /\ ret.raised = "SupportMismatch"

(* C9 *)

StrictlyIncreasing(s) == \A i \in 1..(Len(s) - 1) : s[i] < s[i + 1]

ValidDomain(d) ==
    d.kind = "domain" /\ Len(d.breakpoints) >= 2 /\ StrictlyIncreasing(d.breakpoints)

\* C9: Domain construction raises InvalidDomain for fewer than two
\* breakpoints and for a sequence that is not strictly increasing; every
\* Domain that exists, the results of union and merge included, has at
\* least two breakpoints, strictly increasing.
C9_DomainValid ==
    /\ (ret.op = "Domain"
           /\ (Len(ret.breakpoints) < 2 \/ ~StrictlyIncreasing(ret.breakpoints)))
          => (ret.raised = "InvalidDomain" /\ dom = NoObject)
    /\ dom # NoObject => ValidDomain(dom)
    /\ (ret.op \in {"union", "merge"} /\ ret.raised = "none") => ValidDomain(ret.out)

\* a Domain refused for two equal consecutive breakpoints among
\* otherwise ascending ones
C9_Witness ==
    /\ ret.op = "Domain"
    /\ Len(ret.breakpoints) > 2
    /\ \A i \in 1..(Len(ret.breakpoints) - 1) : ret.breakpoints[i] <= ret.breakpoints[i + 1]
    /\ ~StrictlyIncreasing(ret.breakpoints)
    /\ ret.raised = "InvalidDomain"

(* C10 *)

\* C10 (as stated): fixed-length construction over an ascending breakpoint
\* sequence raises BadFunLengthArgument whenever the length argument is a
\* sequence whose number of entries differs from the number of
\* subintervals, and then returns no function.
C10_AsStated ==
    (ret.op = "initfun_fixedlen"
        /\ Len(ret.domain) >= 2 /\ StrictlyIncreasing(ret.domain)
        /\ ~ret.n.scalar /\ Len(ret.n.v) # Len(ret.domain) - 1)
      => (ret.raised = "BadFunLengthArgument" /\ f = NoObject)

(* C11 *)

\* C11: Interval(a, b) raises IntervalValues exactly when a >= b, every
\* Interval that exists has a < b, and construction from a callable over a
\* breakpoint sequence of two or more entries that is not strictly
\* increasing raises it too and produces no function.
C11_IntervalValues ==
    /\ ret.op = "Interval" =>
          /\ (ret.raised = "IntervalValues") <=> (ret.a >= ret.b)
          /\ ret.raised \in {"none", "IntervalValues"}
          /\ ret.raised = "none" =>
                (ret.out.values = <<ret.a, ret.b>> /\ ret.out.values[1] < ret.out.values[2])
          /\ ret.raised # "none" => ret.out = NoObject
    /\ f # NoObject => \A i \in 1..Len(f.funs) : Left(f.funs[i]) < Right(f.funs[i])
    /\ (ret.op = "initfun_adaptive" /\ Len(ret.domain) >= 2
           /\ ~StrictlyIncreasing(ret.domain))
          => (ret.raised = "IntervalValues" /\ f = NoObject)

\* a construction refused for a breakpoint repeated after an ascending pair
C11_Witness ==
    /\ ret.op = "initfun_adaptive"
    /\ Len(ret.domain) > 2
    /\ ret.domain[1] < ret.domain[2]
    /\ ret.domain[2] = ret.domain[3]
    /\ ret.raised = "IntervalValues"
    /\ f = NoObject

(* C12 *)

\* C12 (as stated): a piecewise function shares no piece with anything held
\* outside it: no mutation of a piece through a copy of f, or through the
\* array f was constructed from, changes the pieces or the breakdata of f.
C12_AsStated ==
    ret.op = "mutate" => Value(f, heap) = ret.before

(* C13 *)

\* C13: the empty series is absorbing: a sum, a difference or a product
\* with an empty operand on either side is empty, and so are +empty and
\* -empty.
C13_EmptyAbsorbing ==
    /\ (ret.op \in {"add", "sub", "mul"}
           /\ (isemptySeries(ret.left) \/ isemptySeries(ret.right)))
          => isemptySeries(ret.out)
    /\ (ret.op \in {"pos", "neg"} /\ isemptySeries(ret.operand))
          => isemptySeries(ret.out)

\* a series of several coefficients minus the empty series
C13_Witness ==
    /\ ret.op = "sub"
    /\ Len(ret.left) = MaxSeries
    /\ ret.left[MaxSeries] # 0
    /\ isemptySeries(ret.right)
    /\ isemptySeries(ret.out)

(* C14 *)

\* C14: the breakdata of k >= 1 validated, sorted pieces has k+1 keys,
\* ascending, the piece endpoints; its first value is the first piece's left
\* end value, its last the last piece's right end value, and at an interior
\* breakpoint the mean of the left piece's right end value and the right
\* piece's left end value (held in halves: their sum); the breakdata of no
\* pieces is empty.
C14_Breakdata ==
    f # NoObject =>
        LET k == Len(f.funs)
            bd == f.breakdata
        IN IF k = 0 THEN bd = <<>>
           ELSE /\ Len(bd) = k + 1
                /\ \A i \in 1..k : bd[i][1] < bd[i + 1][1]
                /\ bd[1][1] = Left(f.funs[1])
                /\ \A i \in 1..k : bd[i + 1][1] = Right(f.funs[i])
                /\ bd[1][2] = Val2(LeftValue(f.funs[1]))
                /\ bd[k + 1][2] = Val2(RightValue(f.funs[k]))
                /\ \A i \in 2..k :
                      bd[i][2] = RightValue(f.funs[i - 1]) + LeftValue(f.funs[i])

\* three pieces with a jump at an interior breakpoint
C14_Witness ==
    /\ f # NoObject
    /\ Len(f.funs) = MaxPieces
    /\ \E i \in 2..Len(f.funs) : RightValue(f.funs[i - 1]) # LeftValue(f.funs[i])
    /\ Len(f.breakdata) = MaxPieces + 1

(* C15 *)

\* C15: every piecewise function that exists after constructions, copy(),
\* diff() and cumsum() has its pieces sorted by left endpoint and tiling
\* [first breakpoint, last breakpoint] with no gap and no overlap; the result
\* of copy(), diff() or cumsum() has as many pieces as its operand and the
\* same breakpoints.
C15_PartitionKept ==
    /\ (f # NoObject /\ ~isempty(f)) =>
          /\ \A i \in 1..(Len(f.funs) - 1) :
                /\ Left(f.funs[i]) < Left(f.funs[i + 1])
                /\ Right(f.funs[i]) = Left(f.funs[i + 1])
          /\ Left(f.funs[1]) = breakpoints(f)[1]
          /\ Right(f.funs[Len(f.funs)]) = breakpoints(f)[Len(breakpoints(f))]
    /\ ret.op \in {"copy", "diff", "cumsum"} =>
          /\ f = ret.out
          /\ Len(ret.out.funs) = Len(ret.self.funs)
          /\ breakpoints(ret.out) = breakpoints(ret.self)
          /\ \A i \in 1..Len(ret.out.funs) :
                ret.out.funs[i].interval = ret.self.funs[i].interval

\* the second derivative of a function of several pieces: every piece of
\* the result is the empty series on its interval
C15_Witness ==
    /\ ret.op = "diff"
    /\ Len(ret.self.funs) = MaxPieces
    /\ \A i \in 1..Len(ret.self.funs) : Len(ret.self.funs[i].coeffs) = 1
    /\ \A i \in 1..Len(ret.out.funs) : ret.out.funs[i].coeffs = <<>>
    /\ Len(ret.out.funs) = MaxPieces

(* C16 *)

\* C16: evaluation, roots(), sum(), diff(), cumsum() and copy() leave their
\* operand as it was: the same piece objects, each with the interval and the
\* coefficients it had, and the same breakdata, which is the breakdata of
\* those pieces as set at construction.
C16_OperandUnchanged ==
    ret.op \in {"call", "roots", "sum", "diff", "cumsum", "copy"} =>
        /\ f = ret.self
        /\ Value(f, heap) = ret.before
        /\ f.breakdata = compute_breakdata(Deref(f.funs, heap))

\* a cumsum of several pieces whose result is made of new piece objects
\* that differ from the operand's
C16_Witness ==
    /\ ret.op = "cumsum"
    /\ Len(f.funs) = MaxPieces
    /\ \A i \in 1..Len(f.funs) : \A j \in 1..Len(ret.out.funs) :
          f.funs[i] # ret.out.funs[j]
    /\ \A i \in 1..Len(f.funs) : heap[f.funs[i]] # heap[ret.out.funs[i]]

(* C17 *)

\* C17 (as stated): every arithmetic operator applied to a piecewise
\* function (binary +, -, * with it on the left or on the right, unary +
\* and -) raises NotImplementedError.
C17_AsStated ==
    ret.op = "operator" => ret.raised = "NotImplementedError"

(* C18 *)

\* the definite integrals of pieces 1..j
PartialSums(funs, j) == SumSeq([i \in 1..j |-> BndSum(funs[i])])

C19_OneRule ==
    Called =>
        \A i \in 1..Len(ret.x) :
            /\ InteriorWrites(f, ret.x, i) + BreakpointWrites(f, ret.x, i)
                  + LeftWrites(f, ret.x, i) + RightWrites(f, ret.x, i) = 1
            /\ ret.out[i] # NaN

\* a vector with a point at an interior breakpoint and a point inside a
\* piece of a function of several pieces
C19_Witness ==
    /\ Called
    /\ Len(f.funs) > 1
    /\ \E i \in 1..Len(ret.x) : \E j \in 1..(Len(f.funs) - 1) :
          ret.x[i] = Right(f.funs[j])
    /\ \E i \in 1..Len(ret.x) : InteriorWrites(f, ret.x, i) = 1

====
